---- MODULE Spec2Model ----
(***************************************************************************)
(* NDB (pyroute2/ndb/main.py): the event queue, the per-origin Source       *)
(* readers, the dispatch loop NDB.__dbm__, the handler registry with its    *)
(* weak-reference handlers, attach / detach of sources and NDB.close().     *)
(***************************************************************************)
EXTENDS Naturals, Sequences, FiniteSets, TLC

\* ---------------------------------------------------------------- bounds
\* Source objects ever constructed (the initial localhost one included).
MaxEpoch == 2
\* Batches the reader threads relay, all together.
MaxRelay == 2
\* LiveObjects minted by View.get.
MaxObjs == 2
\* Calls of NDB.close().
MaxClose == 2
\* Batches the channels receive, all together, where the channel is modelled.
MaxChan == 3
\* Rows of the interfaces table.
MaxRows == 2
\* Reports a caller may hold.
MaxReports == 1
\* Nested snapshot() calls the interpreter runs before it raises
\* RecursionError.
MaxDepth == 4
\* MAX_REPORT_LINES of Report.__repr__, 100 in the source: scaled to the
\* tables of the model, which hold fewer rows than that.
MAX_REPORT_LINES == 1

\* ------------------------------------------------------------- universe
Origins == {"localhost", "h1"}
\* Foreground threads: f1 uses the whole API, f2 is the process-exit hook.
FG == {"f1", "f2"}
NoThread == "none"

\* The kinds the Store binds handlers for (schema.event_map).
SchemaKinds == {"ifinfmsg", "ifaddrmsg", "ndmsg", "rtmsg"}
\* Kinds that are Exception instances.
ExceptionKinds == {"ShutdownException", "Exception"}

\* An event: kind, well-formedness, and n, its number among the events the
\* origin's Source has put (0 for an event put by the coordinator).
Ev(kind, ok, flags, n) == [kind |-> kind, ok |-> ok, flags |-> flags, n |-> n]

\* The four initial dump batches, in the order Source.start() puts them.
DumpRoles == <<"links", "addr", "neigh", "routes">>
DumpKind(role) ==
    CASE role = "links" -> "ifinfmsg"
      [] role = "addr" -> "ifaddrmsg"
      [] role = "neigh" -> "ndmsg"
      [] role = "routes" -> "rtmsg"

\* What a reader may receive from its channel: batches of one to three
\* events (kind, well-formed, flags).  The first element of a batch is a
\* message, as the reader subscripts its header before it relays the batch.
RelayShapes ==
    { <<<<"ifinfmsg", TRUE, 0>>>>,
      <<<<"ifinfmsg", FALSE, 1>>, <<"ifinfmsg", TRUE, 1>>>>,
      <<<<"unknown", TRUE, 0>>, <<"Exception", TRUE, 0>>, <<"unknown", TRUE, 0>>>> }

\* Handlers: the Store's materialisation handler, the ready-Event handler,
\* the weak handler of LiveObject o, and the default handler.
SchemaHandler == [h |-> "schema", o |-> 0]
ReadyHandler == [h |-> "ready", o |-> 0]
ObjHandler(o) == [h |-> "obj", o |-> o]
DefaultHandler == [h |-> "default", o |-> 0]

NoBatch == [target |-> "none", ep |-> 0, role |-> "none", events |-> <<>>]
NoOut == [h |-> "none", o |-> 0, out |-> "none", hi |-> 0]

VARIABLES
    evq,           \* NDB._event_queue: sequence of batches
    event_map,     \* NDB._event_map: kind -> sequence of handlers
    rtnl_objects,  \* NDB._rtnl_objects: the weak references (object ids)
    objs,          \* the LiveObjects minted so far
    sources,       \* every Source constructed, by epoch
    nl,            \* NDB.nl: origin -> epoch of its Source
    store,         \* the rows of the Store
    storeOpen,     \* FALSE once schema.close() ran
    global_lock,   \* NDB._global_lock holder
    dbmPc,         \* position of the dispatch loop
    cur,           \* the batch the loop took from the queue
    ei,            \* index of the current event in cur.events
    hs,            \* tuple(handlers): the snapshot being iterated
    hi,            \* index of the next handler in hs
    pc,            \* position of each foreground thread
    arg,           \* the running call's arguments and locals
    nput,          \* events put by the Sources of each origin
    lastDisp,      \* n of the last Source event handed to handlers
    lastOut,       \* outcome of the last handler invocation of this event
    evSet,         \* per epoch: times the ready Event was set
    dumped,        \* per epoch: roles of the dump batches dispatched
    detached,      \* origin detached with flush and not attached since
    relays,        \* batches relayed by the readers so far
    closes,        \* close() calls started
    commitOnClosed,\* a commit/close was issued on a closed Store
    chan,          \* per Source: the batches its channel holds for get()
    ifrows,        \* the rows of the Store's interfaces table, in rowid order
    db_lock,       \* schema.db_lock (re-entrant): owner and depth
    loc,           \* the locals of each foreground View / object call
    reports,       \* the Report objects handed to callers
    apiThreads,    \* the foreground threads that use the whole API
    obs            \* what the running foreground call has observed so far

vars == <<evq, event_map, rtnl_objects, objs, sources, nl, store, storeOpen,
          global_lock, dbmPc, cur, ei, hs, hi, pc, arg, nput, lastDisp,
          lastOut, evSet, dumped, detached, relays, closes, commitOnClosed,
          chan, ifrows, db_lock, loc, reports, apiThreads, obs>>

dbmVars == <<dbmPc, cur, ei, hs, hi, lastOut>>
ghostVars == <<nput, lastDisp, evSet, dumped, detached, relays>>
viewVars == <<chan, ifrows, db_lock, loc, reports, apiThreads, obs>>

\* --------------------------------------------------------------- helpers
Row(target, table, index) == [target |-> target, table |-> table, index |-> index]

\* schema.flush(target): drop every row tagged with the target.
Flush(rows, target) == { r \in rows : r.target # target }

\* schema.flush(target) on the interfaces table.
FlushRows(rows, target) == SelectSeq(rows, LAMBDA r : r.target # target)

NoArg == [target |-> "none", flush |-> FALSE, event |-> FALSE, k |-> 0,
          snap |-> {}, todo |-> {}, src |-> 0, nested |-> FALSE]

Source(target, event) ==
    [target |-> target, started |-> event, closed |-> FALSE, alive |-> FALSE]

Epoch == Len(sources)

\* The origins NDB(nl=...) may be constructed with, in dict order.
InitOrigins == <<"localhost", "h1">>

\* The state after NDB.__init__ returned, for the first n0 of InitOrigins:
\* the dispatch thread has built the registry (the ready-Event handler,
\* then the Store's handlers), attached every initial source with no ready
\* signal, dispatched the initial dumps and set _dbm_ready; the readers run.
InitWith(n0) ==
    /\ evq = <<>>
    /\ event_map = [k \in SchemaKinds \cup {"Event"} |->
                       IF k = "Event" THEN <<ReadyHandler>> ELSE <<SchemaHandler>>]
    /\ rtnl_objects = {}
    /\ objs = <<>>
    /\ sources = [i \in 1..n0 |->
                     [Source(InitOrigins[i], FALSE) EXCEPT !.alive = TRUE]]
    /\ nl = [t \in { InitOrigins[i] : i \in 1..n0 } |->
                CHOOSE i \in 1..n0 : InitOrigins[i] = t]
    /\ store = { Row(InitOrigins[i], DumpKind(DumpRoles[k]), 1) :
                    i \in 1..n0, k \in 1..4 }
    /\ storeOpen = TRUE
    /\ global_lock = NoThread
    /\ dbmPc = "get"
    /\ cur = NoBatch
    /\ ei = 0
    /\ hs = <<>>
    /\ hi = 0
    /\ pc = [f \in FG |-> "idle"]
    /\ arg = [f \in FG |-> NoArg]
    /\ nput = [t \in Origins |->
                  IF \E i \in 1..n0 : InitOrigins[i] = t THEN 4 ELSE 0]
    /\ lastDisp = [t \in Origins |->
                      IF \E i \in 1..n0 : InitOrigins[i] = t THEN 4 ELSE 0]
    /\ lastOut = NoOut
    /\ evSet = [e \in 1..n0 |-> 0]
    /\ dumped = [e \in 1..n0 |-> DumpRoles]
    /\ detached = [t \in Origins |-> FALSE]
    /\ relays = 0
    /\ closes = 0
    /\ commitOnClosed = FALSE

Init == \E n0 \in 1..Len(InitOrigins) : InitWith(n0)

\* schema.db_lock, free.
NoLock == [owner |-> NoThread, depth |-> 0]

\* A key with no field given: "" and 0 stand for a field that is absent.
NoKey == [target |-> "", index |-> 0, IFLA_IFNAME |-> ""]

\* No View or object call is running in a thread.
NoLoc == [op |-> "none", key |-> NoKey, fetch |-> {}, spec |-> NoKey, o |-> 0,
          todo |-> <<>>, rep |-> 0, kind |-> ""]

\* Nothing observed yet.
NoObs == [lookups |-> 0, locked |-> TRUE, result |-> "none", out |-> <<>>]

\* The part of the initial state the View and Store-lock calls work on:
\* the interfaces table holds the given rows, the given threads use the API.
InitViews(rows, threads) ==
    /\ chan = <<>>
    /\ ifrows = rows
    /\ db_lock = NoLock
    /\ loc = [f \in FG |-> NoLoc]
    /\ reports = <<>>
    /\ apiThreads = threads
    /\ obs = [f \in FG |-> NoObs]

\* with self.schema.db_lock: the lock is free or this thread holds it
CanLock(th) == db_lock.owner \in {NoThread, th}

\* db_lock after the thread has entered one more with-block.
Acquire(th) == [owner |-> th, depth |-> db_lock.depth + 1]

\* db_lock after its owner has left one with-block.
Release == IF db_lock.depth <= 1 THEN NoLock ELSE [db_lock EXCEPT !.depth = @ - 1]

\* db_lock after an exception has unwound n nested with-blocks of its owner.
Unwind(n) == IF db_lock.depth <= n THEN NoLock ELSE [db_lock EXCEPT !.depth = @ - n]

\* The state after construction with one thread using the API, and with
\* two.
InitOne == Init /\ InitViews(<<>>, {"f1"})
InitTwo == Init /\ InitViews(<<>>, FG)

\* ------------------------------------------------------- the dispatch loop
\* event_map.get(event.__class__, [default_handler, ])
Handlers(kind) ==
    IF kind \in DOMAIN event_map THEN event_map[kind] ELSE <<DefaultHandler>>

CurEvent == cur.events[ei]

\* Mutant: 'up' for any flag set.
StateOfAnyBit(flags) == IF flags # 0 THEN "up" ELSE "down"

\* 'up' if self['flags'] & 1 else 'down'
State(flags) == IF flags % 2 = 1 THEN "up" ELSE "down"

\* Mutant: wr_handler turns every failure of the callback into the
\* invalidate signal, whether or not the referent is gone.
WrHandlerAlwaysInvalidates(o, e) ==
    IF ~objs[o].alive \/ ~e.ok THEN "InvalidateHandlerException" ELSE "return"

\* wr_handler(wr, fname, *argv): what the call raises ("return": nothing).
WrHandler(o, e) ==
    IF ~objs[o].alive THEN "InvalidateHandlerException"
    ELSE IF ~e.ok THEN "Exception"
    ELSE "return"

\* default_handler(target, event)
default_handler(e) ==
    IF e.kind \in ExceptionKinds THEN e.kind ELSE "return"

\* A handler of the Store: a malformed message, or a closed Store, fails.
SchemaLoad(e) == IF e.ok /\ storeOpen THEN "return" ELSE "Exception"

\* What a handler of the Store leaves in the rows: the row of the message,
\* tagged with the origin the batch came from.
SchemaInsert(rows, target, e) == rows \cup {Row(target, e.kind, 1)}

\* handler(target, event): what the invocation raises.
Invoke(h, e) ==
    CASE h.h = "schema" -> SchemaLoad(e)
      [] h.h = "ready" -> "return"
      [] h.h = "obj" -> WrHandler(h.o, e)
      [] h.h = "default" -> default_handler(e)

\* Mutant: the bare except clause ends the loop instead of logging.
ExceptBareReturns(raised) ==
    CASE raised = "return" -> "ok"
      [] raised = "InvalidateHandlerException" -> "invalidate"
      [] OTHER -> "shutdown"

\* Mutant: the bare except clause comes before the ShutdownException one.
ExceptLogsShutdown(raised) ==
    CASE raised = "return" -> "ok"
      [] raised = "InvalidateHandlerException" -> "invalidate"
      [] OTHER -> "fail"

\* The except clauses of the loop, in their order.
Except(raised) ==
    CASE raised = "return" -> "ok"
      [] raised = "InvalidateHandlerException" -> "invalidate"
      [] raised = "ShutdownException" -> "shutdown"
      [] OTHER -> "fail"

\* Mutant: the first handler of the list is removed, whichever it is.
ListRemoveFirst(s, x) == IF s = <<>> THEN <<>> ELSE Tail(s)

\* s without its first element equal to x (list.remove).
RECURSIVE ListRemove(_, _)
ListRemove(s, x) ==
    IF s = <<>> THEN <<>>
    ELSE IF Head(s) = x THEN Tail(s)
    ELSE <<Head(s)>> \o ListRemove(Tail(s), x)

\* handlers.remove(handler): handlers is the registry's list of the kind,
\* or the throw-away default list when the kind has none.
RemoveHandler(kind, h) ==
    IF kind \in DOMAIN event_map
    THEN [event_map EXCEPT ![kind] = ListRemove(@, h)]
    ELSE event_map

\* RTNL_Object.load_rtnlmsg on object o: an event of its own row is loaded
\* and the derived 'state' recomputed (Interface.load_rtnl).
LoadRtnl(o, target, e) ==
    IF objs[o].target = target
    THEN [objs EXCEPT ![o].flags = e.flags, ![o].state = State(e.flags)]
    ELSE objs

\* for event in events: handlers = event_map.get(...);
\* for handler in tuple(handlers): -- the loop is at event i of batch b
BeginEvent(b, i) ==
    /\ ei' = i
    /\ hs' = Handlers(b.events[i].kind)
    /\ hi' = 1
    /\ lastOut' = NoOut
    /\ lastDisp' = IF b.events[i].n > 0
                   THEN [lastDisp EXCEPT ![b.target] = b.events[i].n]
                   ELSE lastDisp
    /\ dbmPc' = IF Handlers(b.events[i].kind) = <<>> THEN "gc" ELSE "invoke"

\* The batch the loop takes from the queue, and what it leaves there.
EvqGet(q) == <<Head(q), Tail(q)>>

\* target, events = event_queue.get()
DbmGet ==
    /\ dbmPc = "get"
    /\ evq # <<>>
    /\ cur' = EvqGet(evq)[1]
    /\ evq' = EvqGet(evq)[2]
    /\ IF EvqGet(evq)[1].events = <<>>
       THEN UNCHANGED <<dbmPc, ei, hs, hi, lastOut, lastDisp>>
       ELSE BeginEvent(EvqGet(evq)[1], 1)
    /\ dumped' = IF EvqGet(evq)[1].role \in {"links", "addr", "neigh", "routes"}
                 THEN [dumped EXCEPT ![EvqGet(evq)[1].ep] =
                                         Append(@, EvqGet(evq)[1].role)]
                 ELSE dumped
    /\ UNCHANGED <<viewVars, event_map, rtnl_objects, objs, sources, nl, store,
                   storeOpen, global_lock, pc, arg, nput, evSet, detached,
                   relays, closes, commitOnClosed>>

\* Mutant: a logged failure is fatal, as the shutdown signal is.
AfterInvokeFatal(out) ==
    IF out \in {"shutdown", "fail"} THEN "done"
    ELSE IF hi + 1 > Len(hs) THEN "gc"
    ELSE "invoke"

\* Where the loop goes after one handler invocation.
AfterInvoke(out) ==
    IF out = "shutdown" THEN "done"
    ELSE IF hi + 1 > Len(hs) THEN "gc"
    ELSE "invoke"

\* The Store handler of a link message updates the interfaces row of the
\* event's interface, when the table holds it.
SchemaUpdate(rows, target, e) ==
    [i \in DOMAIN rows |->
        IF e.kind = "ifinfmsg" /\ rows[i].target = target /\ rows[i].index = 1
        THEN [rows[i] EXCEPT !.flags = e.flags]
        ELSE rows[i]]

\* try: handler(target, event) except ...
\* The Store's handler writes under the Store's lock.
DbmInvoke ==
    /\ dbmPc = "invoke"
    /\ hs[hi].h = "schema" => CanLock("dbm")
    /\ LET h == hs[hi]
           e == CurEvent
           raised == Invoke(h, e)
           out == Except(raised)
       IN  /\ lastOut' = [h |-> h.h, o |-> h.o, out |-> out, hi |-> hi]
           /\ hi' = hi + 1
           /\ dbmPc' = AfterInvoke(out)
           /\ event_map' = IF out = "invalidate"
                           THEN RemoveHandler(e.kind, h)
                           ELSE event_map
           /\ store' = IF out = "ok" /\ h.h = "schema"
                       THEN SchemaInsert(store, cur.target, e)
                       ELSE store
           /\ ifrows' = IF out = "ok" /\ h.h = "schema"
                        THEN SchemaUpdate(ifrows, cur.target, e)
                        ELSE ifrows
           /\ evSet' = IF out = "ok" /\ h.h = "ready"
                       THEN [evSet EXCEPT ![cur.ep] = @ + 1]
                       ELSE evSet
           /\ objs' = IF out = "ok" /\ h.h = "obj"
                      THEN LoadRtnl(h.o, cur.target, e)
                      ELSE objs
    /\ UNCHANGED <<chan, db_lock, loc, reports, apiThreads, obs, evq,
                   rtnl_objects, sources, nl, storeOpen, global_lock,
                   cur, ei, hs, pc, arg, nput, lastDisp, dumped, detached,
                   relays, closes, commitOnClosed>>

\* The weak references the sweep keeps.
Sweep(refs) == { o \in refs : objs[o].alive }

\* Mutant: the iteration over the batch skips every other event.
NextEventSkips(i) == i + 2

\* The index of the event after event i of the batch.
NextEvent(i) == i + 1

\* if time.time() - self.gctime > config.gc_timeout: sweep; then the next
\* event of the batch, or back to the queue
DbmGc ==
    /\ dbmPc = "gc"
    /\ \E due \in BOOLEAN :
          rtnl_objects' = IF due THEN Sweep(rtnl_objects) ELSE rtnl_objects
    /\ IF NextEvent(ei) <= Len(cur.events)
       THEN BeginEvent(cur, NextEvent(ei))
       ELSE dbmPc' = "get" /\ UNCHANGED <<ei, hs, hi, lastOut, lastDisp>>
    /\ UNCHANGED <<viewVars, evq, event_map, objs, sources, nl, store, storeOpen,
                   global_lock, cur, pc, arg, nput, evSet, dumped, detached,
                   relays, closes, commitOnClosed>>

Dbm == DbmGet \/ DbmInvoke \/ DbmGc

\* ---------------------------------------------------------- reader threads
\* The events of a batch of the given shape, numbered from n + 1.
Batch(shape, n) ==
    [i \in 1..Len(shape) |-> Ev(shape[i][1], shape[i][2], shape[i][3], n + i)]

\* Source.start.t: msg = tuple(channel.get()); event_queue.put((target, msg))
ReaderRelay(s, shapes) ==
    /\ sources[s].alive
    /\ ~sources[s].closed
    /\ relays < MaxRelay
    /\ \E shape \in shapes :
          LET t == sources[s].target
          IN  /\ evq' = Append(evq, [target |-> t, ep |-> s, role |-> "relay",
                                     events |-> Batch(shape, nput[t])])
              /\ nput' = [nput EXCEPT ![t] = @ + Len(shape)]
    /\ relays' = relays + 1
    /\ UNCHANGED <<viewVars, event_map, rtnl_objects, objs, sources, nl, store,
                   storeOpen, global_lock, dbmVars, pc, arg, lastDisp, evSet,
                   dumped, detached, closes, commitOnClosed>>

\* Source.start.t: the batch with error code 104 ends the thread.
ReaderExit(s) ==
    /\ sources[s].alive
    /\ sources[s].closed
    /\ sources' = [sources EXCEPT ![s].alive = FALSE]
    /\ UNCHANGED <<viewVars, evq, event_map, rtnl_objects, objs, nl, store, storeOpen,
                   global_lock, dbmPc, cur, ei, hs, hi, pc, arg, nput,
                   lastDisp, lastOut, evSet, dumped, detached, relays, closes,
                   commitOnClosed>>

Relays(shapes) == \E s \in 1..Len(sources) : ReaderRelay(s, shapes)

\* code == 104
ECONNRESET == 104

\* What a channel may receive: batches of messages (kind, well-formed,
\* flags, error code of the header; 0: no error).
ChanShapes ==
    { <<<<"ifinfmsg", TRUE, 1, 0>>>>,
      <<<<"ifinfmsg", TRUE, 0, ECONNRESET>>>>,
      <<<<"ifinfmsg", TRUE, 0, 0>>, <<"ifinfmsg", TRUE, 1, ECONNRESET>>>>,
      <<<<"ifinfmsg", TRUE, 0, 32>>>> }

\* The batches the channel of Source s holds.
ChanOf(s) == IF s \in DOMAIN chan THEN chan[s] ELSE <<>>

\* The channel of Source s with its batches replaced.
ChanPut(s, q) == [x \in DOMAIN chan \cup {s} |-> IF x = s THEN q ELSE chan[x]]

\* The open channel of a Source receives a batch from its origin.
ChanRecv(s, shape) ==
    /\ ~sources[s].closed
    /\ relays < MaxChan
    /\ relays' = relays + 1
    /\ chan' = ChanPut(s, Append(ChanOf(s), shape))
    /\ UNCHANGED <<evq, event_map, rtnl_objects, objs, sources, nl, store,
                   storeOpen, global_lock, dbmVars, pc, arg, nput, lastDisp,
                   evSet, dumped, detached, closes, commitOnClosed, ifrows,
                   db_lock, loc, reports, apiThreads, obs>>

\* Mutant: the reader takes no batch for the disconnect batch.
IsDisconnectNever(msg) == FALSE

\* msg[0]['header']['error'] and msg[0]['header']['error'].code == 104
IsDisconnect(msg) == msg[1][4] # 0 /\ msg[1][4] = ECONNRESET

\* One turn of the loop of Source.start.t, the channel modelled: get() gives
\* the next batch the channel holds, or, the channel closed and empty, the
\* disconnect batch; the disconnect batch ends the thread, any other batch
\* is put into the event queue.
ReaderLoop(s) ==
    /\ sources[s].alive
    /\ IF ChanOf(s) # <<>>
       THEN /\ chan' = ChanPut(s, Tail(ChanOf(s)))
            /\ IF IsDisconnect(Head(ChanOf(s)))
               THEN /\ sources' = [sources EXCEPT ![s].alive = FALSE]
                    /\ UNCHANGED <<evq, nput>>
               ELSE /\ evq' = Append(evq,
                              [target |-> sources[s].target, ep |-> s,
                               role |-> "relay",
                               events |-> Batch(Head(ChanOf(s)),
                                                nput[sources[s].target])])
                    /\ nput' = [nput EXCEPT ![sources[s].target] =
                                                @ + Len(Head(ChanOf(s)))]
                    /\ UNCHANGED sources
       ELSE /\ sources[s].closed
            /\ sources' = [sources EXCEPT ![s].alive = FALSE]
            /\ UNCHANGED <<chan, evq, nput>>
    /\ UNCHANGED <<event_map, rtnl_objects, objs, nl, store, storeOpen,
                   global_lock, dbmVars, pc, arg, lastDisp, evSet, dumped,
                   detached, relays, closes, commitOnClosed, ifrows, db_lock,
                   loc, reports, apiThreads, obs>>

ChanRecvs == \E s \in 1..Len(sources), shape \in ChanShapes : ChanRecv(s, shape)

ReaderLoops == \E s \in 1..Len(sources) : ReaderLoop(s)

Exits == \E s \in 1..Len(sources) : ReaderExit(s)

\* --------------------------------------------------- foreground: sources
\* What each foreground thread calls: f2 only runs the exit hook.
MayCall(f, op) == f \in apiThreads \/ op = "close"

\* Source.close(), first half: self.nl.close()
CloseChannel(s) == [sources EXCEPT ![s].closed = TRUE]

\* Source.close(), second half: self.th.join() has returned
Joined(s) == ~sources[s].alive

\* connect_source(target, channel, event): event.clear();
\* self.schema.flush(target); if target in self.nl: disconnect_source(target)
\* up to nl.close() of the old Source
ConnectSource(f, t, ev) ==
    /\ pc[f] = "idle"
    /\ MayCall(f, "connect_source")
    /\ Epoch < MaxEpoch
    /\ storeOpen
    /\ CanLock(f)
    /\ store' = Flush(store, t)
    /\ ifrows' = FlushRows(ifrows, t)
    /\ detached' = [detached EXCEPT ![t] = FALSE]
    /\ IF t \in DOMAIN nl
       THEN /\ sources' = CloseChannel(nl[t])
            /\ pc' = [pc EXCEPT ![f] = "ds_join"]
            /\ arg' = [arg EXCEPT ![f] = [NoArg EXCEPT !.target = t, !.event = ev,
                                      !.src = nl[t], !.flush = TRUE, !.nested = TRUE]]
       ELSE /\ pc' = [pc EXCEPT ![f] = "cs_new"]
            /\ arg' = [arg EXCEPT ![f] = [NoArg EXCEPT !.target = t, !.event = ev]]
            /\ UNCHANGED sources
    /\ UNCHANGED <<chan, db_lock, loc, reports, apiThreads, obs, evq, event_map,
                   rtnl_objects, objs, nl, storeOpen,
                   global_lock, dbmVars, nput, lastDisp, evSet, dumped,
                   relays, closes, commitOnClosed>>

\* disconnect_source(target, flush): self.nl[target].close() up to nl.close()
DisconnectSource(f, t, flush) ==
    /\ pc[f] = "idle"
    /\ MayCall(f, "disconnect_source")
    /\ t \in DOMAIN nl
    /\ sources' = CloseChannel(nl[t])
    /\ pc' = [pc EXCEPT ![f] = "ds_join"]
    /\ arg' = [arg EXCEPT ![f] = [NoArg EXCEPT !.target = t, !.flush = flush,
                                                !.src = nl[t]]]
    /\ UNCHANGED <<viewVars, evq, event_map, rtnl_objects, objs, nl, store, storeOpen,
                   global_lock, dbmVars, ghostVars, closes, commitOnClosed>>

\* th.join() returns; del self.nl[target], a KeyError that ends the call
\* when another caller has deleted the entry in between
DsJoin(f) ==
    /\ pc[f] = "ds_join"
    /\ Joined(arg[f].src)
    /\ nl' = [t \in DOMAIN nl \ {arg[f].target} |-> nl[t]]
    /\ pc' = [pc EXCEPT ![f] = IF arg[f].flush /\ arg[f].target \in DOMAIN nl
                               THEN "ds_flush" ELSE "idle"]
    /\ arg' = [arg EXCEPT ![f] = IF arg[f].flush /\ arg[f].target \in DOMAIN nl
                                 THEN @ ELSE NoArg]
    /\ UNCHANGED <<viewVars, evq, event_map, rtnl_objects, objs, sources, store,
                   storeOpen, global_lock, dbmVars, ghostVars, closes,
                   commitOnClosed>>

\* if flush: self.schema.flush(target); a closed Store makes the call raise
DsFlush(f) ==
    /\ pc[f] = "ds_flush"
    /\ CanLock(f)
    /\ IF ~storeOpen
       THEN /\ pc' = [pc EXCEPT ![f] = "idle"]
            /\ arg' = [arg EXCEPT ![f] = NoArg]
            /\ UNCHANGED <<store, ifrows, detached>>
       ELSE /\ store' = Flush(store, arg[f].target)
            /\ ifrows' = FlushRows(ifrows, arg[f].target)
            /\ IF arg[f].nested
               THEN /\ pc' = [pc EXCEPT ![f] = "cs_new"]
                    /\ UNCHANGED <<arg, detached>>
               ELSE /\ pc' = [pc EXCEPT ![f] = "idle"]
                    /\ arg' = [arg EXCEPT ![f] = NoArg]
                    /\ detached' = [detached EXCEPT ![arg[f].target] = TRUE]
    /\ UNCHANGED <<chan, db_lock, loc, reports, apiThreads, obs, evq, event_map,
                   rtnl_objects, objs, sources, nl,
                   storeOpen, global_lock, dbmVars, nput, lastDisp, evSet,
                   dumped, relays, closes, commitOnClosed>>

\* Mutant: the ready signal is put before the initial load.
StartPlanReadyFirst(started) ==
    IF started THEN <<"ready">> \o DumpRoles ELSE DumpRoles

\* The batches Source.start() puts, in order, before it starts the thread.
StartPlan(started) ==
    IF started THEN DumpRoles \o <<"ready">> ELSE DumpRoles

\* The one event of the batch start() puts for a role.
PlanEvent(role, n) ==
    IF role = "ready" THEN Ev("Event", TRUE, 0, n)
    ELSE Ev(DumpKind(role), TRUE, 1, n)

\* The batches of Source.start() for Source s of target t, the events
\* numbered from n + 1.
StartBatches(t, s, started, n) ==
    [k \in 1..Len(StartPlan(started)) |->
        [target |-> t, ep |-> s, role |-> StartPlan(started)[k],
         events |-> <<PlanEvent(StartPlan(started)[k], n + k)>>]]

\* self.nl[target] = Source(self._event_queue, target, channel, event);
\* self.nl[target].start(): the initial load is put, batch after batch, by
\* the calling thread, then the reader thread is started
CsNew(f) ==
    /\ pc[f] = "cs_new"
    /\ LET t == arg[f].target
           batches == StartBatches(t, Epoch + 1, arg[f].event, nput[t])
       IN  /\ sources' = Append(sources, [Source(t, arg[f].event) EXCEPT
                                             !.alive = TRUE])
           /\ nl' = [x \in DOMAIN nl \cup {t} |-> IF x = t THEN Epoch + 1 ELSE nl[x]]
           /\ evq' = evq \o batches
           /\ nput' = [nput EXCEPT ![t] = @ + Len(batches)]
    /\ evSet' = [e \in 1..(Epoch + 1) |-> IF e <= Epoch THEN evSet[e] ELSE 0]
    /\ dumped' = [e \in 1..(Epoch + 1) |-> IF e <= Epoch THEN dumped[e] ELSE <<>>]
    /\ pc' = [pc EXCEPT ![f] = "idle"]
    /\ arg' = [arg EXCEPT ![f] = NoArg]
    /\ UNCHANGED <<viewVars, event_map, rtnl_objects, objs, store, storeOpen,
                   global_lock, dbmVars, lastDisp, detached, relays, closes,
                   commitOnClosed>>

\* ------------------------------------------------------ foreground: close
\* The Sources close() iterates: self.nl.items()
NlItems == { nl[t] : t \in DOMAIN nl }

\* The next Source of the iteration (dict order is insertion order).
NextItem(todo) == CHOOSE s \in todo : \A x \in todo : s <= x

\* Mutant: close() does not wait for the dispatch thread.
DbmNotJoined == TRUE

\* self._dbm_thread.join() has returned
DbmJoined == dbmPc = "done"

\* close(): with self._global_lock; self.schema is set, so
\* self._event_queue.put(('localhost', (ShutdownException(), )))
Close(f) ==
    /\ pc[f] = "idle"
    /\ MayCall(f, "close")
    /\ closes < MaxClose
    /\ global_lock = NoThread
    /\ global_lock' = f
    /\ closes' = closes + 1
    /\ evq' = Append(evq, [target |-> "localhost", ep |-> 0, role |-> "ctl",
                           events |-> <<Ev("ShutdownException", TRUE, 0, 0)>>])
    /\ pc' = [pc EXCEPT ![f] = IF NlItems = {} THEN "cl_join" ELSE "cl_src"]
    /\ arg' = [arg EXCEPT ![f] = [NoArg EXCEPT !.snap = NlItems, !.todo = NlItems]]
    /\ UNCHANGED <<viewVars, event_map, rtnl_objects, objs, sources, nl, store,
                   storeOpen, dbmVars, ghostVars, commitOnClosed>>

\* for target, source in self.nl.items(): source.close() up to nl.close()
ClSrc(f) ==
    /\ pc[f] = "cl_src"
    /\ sources' = CloseChannel(NextItem(arg[f].todo))
    /\ arg' = [arg EXCEPT ![f].src = NextItem(arg[f].todo)]
    /\ pc' = [pc EXCEPT ![f] = "cl_srcjoin"]
    /\ UNCHANGED <<viewVars, evq, event_map, rtnl_objects, objs, nl, store, storeOpen,
                   global_lock, dbmVars, ghostVars, closes, commitOnClosed>>

\* source.close(): self.th.join() has returned; the next item
ClSrcJoin(f) ==
    /\ pc[f] = "cl_srcjoin"
    /\ Joined(arg[f].src)
    /\ arg' = [arg EXCEPT ![f].todo = @ \ {arg[f].src}]
    /\ pc' = [pc EXCEPT ![f] = IF arg[f].todo \ {arg[f].src} = {}
                               THEN "cl_join" ELSE "cl_src"]
    /\ UNCHANGED <<viewVars, evq, event_map, rtnl_objects, objs, sources, nl, store,
                   storeOpen, global_lock, dbmVars, ghostVars, closes,
                   commitOnClosed>>

\* self._dbm_thread.join(); self.schema.commit(); self.schema.close()
ClCommit(f) ==
    /\ pc[f] = "cl_join"
    /\ DbmJoined
    /\ CanLock(f)
    /\ storeOpen' = FALSE
    /\ commitOnClosed' = (commitOnClosed \/ ~storeOpen)
    /\ global_lock' = NoThread
    /\ pc' = [pc EXCEPT ![f] = "idle"]
    /\ arg' = [arg EXCEPT ![f] = NoArg]
    /\ UNCHANGED <<viewVars, evq, event_map, rtnl_objects, objs, sources, nl, store,
                   dbmVars, ghostVars, closes>>

\* ------------------------------------------------------ foreground: views
\* Mutant: the handler is put in front of the list of its kind.
RegisterHandlerPrepends(map, kind, h) ==
    IF kind \in DOMAIN map
    THEN [map EXCEPT ![kind] = <<h>> \o @]
    ELSE [k \in DOMAIN map \cup {kind} |-> IF k = kind THEN <<h>> ELSE map[k]]

\* register_handler(event, handler)
register_handler(map, kind, h) ==
    IF kind \in DOMAIN map
    THEN [map EXCEPT ![kind] = Append(@, h)]
    ELSE [k \in DOMAIN map \cup {kind} |-> IF k = kind THEN <<h>> ELSE map[k]]

\* View.__getitem__ for an Interface: a new object (flags 0, state
\* 'unknown'), its weak reference, one handler per entry of its event_map
ViewGet(f, t) ==
    /\ pc[f] = "idle"
    /\ MayCall(f, "get")
    /\ Len(objs) < MaxObjs
    /\ objs' = Append(objs, [alive |-> TRUE, target |-> t, index |-> 1,
                             flags |-> 0, state |-> "unknown"])
    /\ rtnl_objects' = rtnl_objects \cup {Len(objs) + 1}
    /\ event_map' = register_handler(event_map, "ifinfmsg",
                                     ObjHandler(Len(objs) + 1))
    /\ UNCHANGED <<viewVars, evq, sources, nl, store, storeOpen, global_lock, dbmVars,
                   pc, arg, ghostVars, closes, commitOnClosed>>

\* A collected object: nothing of it is left but its dead weak reference.
Collected ==
    [alive |-> FALSE, target |-> "none", index |-> 0, flags |-> 0,
     state |-> "unknown"]

\* The caller drops its last strong reference: the weak reference dies.
Drop(o) ==
    /\ objs[o].alive
    /\ objs' = [objs EXCEPT ![o] = Collected]
    /\ UNCHANGED <<viewVars, evq, event_map, rtnl_objects, sources, nl, store,
                   storeOpen, global_lock, dbmVars, pc, arg, ghostVars,
                   closes, commitOnClosed>>

Views == \E f \in FG, t \in Origins : ViewGet(f, t)

\* ------------------------------------------------- foreground: object keys
\* The variables of the sources, the queue and close().
sourceVars == <<evq, sources, nl, store, storeOpen, global_lock, arg, closes,
                commitOnClosed>>

\* A row of the interfaces table.
IfRow(target, index, name, flags, master, link) ==
    [target |-> target, index |-> index, IFLA_IFNAME |-> name, flags |-> flags,
     IFLA_MASTER |-> master, IFLA_LINK |-> link]

IfNames == {"eth0", "eth1"}

\* self.kspec of an Interface: the key fields of the interfaces table.
kspec == {"target", "index"}

\* The key fields and the name: what a key may give.
KeyFields == {"target", "index", "IFLA_IFNAME"}

Given(key, name) == IF name = "index" THEN key[name] # 0 ELSE key[name] # ""

\* complete_key, lines 27-35: a dict is taken as it is, a name or an index
\* is looked for under 'localhost'
KeyOfName(n) == [NoKey EXCEPT !.target = "localhost", !.IFLA_IFNAME = n]
KeyOfIndex(i) == [NoKey EXCEPT !.target = "localhost", !.index = i]

\* for name in self.kspec: if name not in ret_key: fetch.append(...)
Fetch(key) == { name \in kspec : ~Given(key, name) }

\* The rows the WHERE clause built from the given fields selects, by
\* position in the table.
Matches(rows, key) ==
    { i \in 1..Len(rows) :
        \A name \in KeyFields : Given(key, name) => rows[i][name] = key[name] }

\* Mutant: the lookup gives the first row of the table when the fields
\* select none.
FetchOneAny(rows, key) ==
    IF Matches(rows, key) = {} THEN (IF rows = <<>> THEN 0 ELSE 1)
    ELSE CHOOSE i \in Matches(rows, key) : \A j \in Matches(rows, key) : i <= j

\* cursor.fetchone(): the first row selected, 0 (None) when there is none.
FetchOne(rows, key) ==
    IF Matches(rows, key) = {} THEN 0
    ELSE CHOOSE i \in Matches(rows, key) : \A j \in Matches(rows, key) : i <= j

\* for name, value in zip(fetch, spec): ret_key[name[2:]] = value
Complete(key, row) ==
    [name \in KeyFields |->
        IF name \in Fetch(key) THEN row[name] ELSE key[name]]

\* View.__getitem__: ret = iclass(self, key), up to the lookup of
\* complete_key: a complete key needs none, an incomplete one takes the
\* Store lock for it
GetKey(f, key) ==
    /\ pc[f] = "idle"
    /\ MayCall(f, "get")
    /\ Len(objs) < MaxObjs
    /\ obs' = [obs EXCEPT ![f] = NoObs]
    /\ IF Fetch(key) = {}
       THEN /\ pc' = [pc EXCEPT ![f] = "get_new"]
            /\ loc' = [loc EXCEPT ![f] = [NoLoc EXCEPT !.op = "get", !.key = key,
                                                       !.spec = key]]
            /\ UNCHANGED db_lock
       ELSE /\ CanLock(f)
            /\ db_lock' = Acquire(f)
            /\ pc' = [pc EXCEPT ![f] = "ck_fetch"]
            /\ loc' = [loc EXCEPT ![f] = [NoLoc EXCEPT !.op = "get", !.key = key,
                                                       !.fetch = Fetch(key)]]
    /\ UNCHANGED <<sourceVars, dbmVars, ghostVars, event_map, rtnl_objects,
                   objs, chan, ifrows, reports, apiThreads>>

\* complete_key, lines 48-56: the SELECT and fetchone() under the lock;
\* zip(fetch, None) raises TypeError when no row was selected
CkFetch(f) ==
    /\ pc[f] = "ck_fetch"
    /\ db_lock' = Release
    /\ LET i == FetchOne(ifrows, loc[f].key)
       IN  /\ obs' = [obs EXCEPT ![f].lookups = @ + 1,
                                 ![f].locked = (db_lock.owner = f),
                                 ![f].result = IF i = 0 THEN "TypeError" ELSE @]
           /\ IF i = 0
              THEN /\ pc' = [pc EXCEPT ![f] = "idle"]
                   /\ loc' = [loc EXCEPT ![f] = NoLoc]
              ELSE /\ pc' = [pc EXCEPT ![f] = "get_new"]
                   /\ loc' = [loc EXCEPT ![f].spec = Complete(loc[f].key, ifrows[i])]
    /\ UNCHANGED <<sourceVars, dbmVars, ghostVars, event_map, rtnl_objects,
                   objs, chan, ifrows, reports, apiThreads>>

\* View.__getitem__, lines 270-283: the object of the completed key (flags
\* 0, state 'unknown'), its weak reference and its handler
GetNew(f) ==
    /\ pc[f] = "get_new"
    /\ objs' = Append(objs, [alive |-> TRUE, target |-> loc[f].spec.target,
                             index |-> loc[f].spec.index, flags |-> 0,
                             state |-> "unknown"])
    /\ rtnl_objects' = rtnl_objects \cup {Len(objs) + 1}
    /\ event_map' = register_handler(event_map, "ifinfmsg",
                                     ObjHandler(Len(objs) + 1))
    /\ obs' = [obs EXCEPT ![f].result = "object"]
    /\ pc' = [pc EXCEPT ![f] = "idle"]
    /\ loc' = [loc EXCEPT ![f] = NoLoc]
    /\ UNCHANGED <<sourceVars, dbmVars, ghostVars, chan, ifrows, db_lock,
                   reports, apiThreads>>

\* The row of the object's key, 0 when the table has none.
RowOf(rows, o) ==
    FetchOne(rows, [NoKey EXCEPT !.target = objs[o].target,
                                 !.index = objs[o].index])

\* RTNL_Object.load_sql then Interface.load_sql: the fields of the object's
\* row are loaded, when there is one, and 'state' is set from self['flags']
LoadSql(o, rows) ==
    LET flags == IF RowOf(rows, o) = 0 THEN objs[o].flags
                 ELSE rows[RowOf(rows, o)].flags
    IN  [objs EXCEPT ![o].flags = flags, ![o].state = State(flags)]

\* obj.load_sql(), the Store read under the lock
ObjLoadSql(f, o) ==
    /\ pc[f] = "idle"
    /\ MayCall(f, "load_sql")
    /\ objs[o].alive
    /\ CanLock(f)
    /\ objs' = LoadSql(o, ifrows)
    /\ UNCHANGED <<sourceVars, dbmVars, ghostVars, event_map, rtnl_objects, pc,
                   viewVars>>

\* obj.load_rtnl(target, event) with a link message of the object's row
ObjLoadRtnl(f, o, flags) ==
    /\ pc[f] = "idle"
    /\ MayCall(f, "load_rtnl")
    /\ objs[o].alive
    /\ objs' = LoadRtnl(o, objs[o].target, Ev("ifinfmsg", TRUE, flags, 0))
    /\ UNCHANGED <<sourceVars, dbmVars, ghostVars, event_map, rtnl_objects, pc,
                   viewVars>>

\* The rows a table is filled from, and the tables: no row twice.
IfRows ==
    { IfRow("localhost", 1, "eth0", 1, 0, 0),
      IfRow("h1", 1, "eth0", 2, 0, 0),
      IfRow("localhost", 2, "eth1", 3, 0, 0) }

Tables(rows) ==
    { t \in UNION { [1..n -> rows] : n \in 0..MaxRows } :
        \A i, j \in 1..Len(t) : i # j => t[i] # t[j] }

\* The dict keys a caller may give.
DictKeys ==
    { [target |-> t, index |-> i, IFLA_IFNAME |-> n] :
        t \in Origins \cup {""}, i \in 0..1, n \in {"eth0", ""} } \ {NoKey}

KeyCalls ==
    \E f \in FG :
        \/ \E n \in IfNames : GetKey(f, KeyOfName(n))
        \/ \E i \in 1..2 : GetKey(f, KeyOfIndex(i))
        \/ \E k \in DictKeys : GetKey(f, k)
        \/ CkFetch(f)
        \/ GetNew(f)

LoadCalls ==
    \E f \in FG, o \in 1..Len(objs) :
        \/ ObjLoadSql(f, o)
        \/ \E flags \in 0..3 : ObjLoadRtnl(f, o, flags)

Drops == \E o \in 1..Len(objs) : Drop(o)

\* ------------------------------------- foreground: handler registration
\* The event kinds callers register handlers for: one the Store has a
\* handler list for, two it has none for.
RegisterKinds == {"ifinfmsg", "unknown", "custom"}

\* The handler a caller passes in its n-th call.
UserHandler(f, n) == [h |-> f, o |-> n]

\* ndb.register_handler(event, handler) is called
RhCall(f, kind) ==
    /\ pc[f] = "idle"
    /\ MayCall(f, "register_handler")
    /\ Len(obs[f].out) < MaxObjs
    /\ pc' = [pc EXCEPT ![f] = "rh_check"]
    /\ loc' = [loc EXCEPT ![f] = [NoLoc EXCEPT !.op = "register", !.kind = kind,
                                               !.o = Len(obs[f].out) + 1]]
    /\ UNCHANGED <<sourceVars, dbmVars, ghostVars, event_map, rtnl_objects, objs,
                   chan, ifrows, db_lock, reports, apiThreads, obs>>

\* if event not in self._event_map:
RhCheck(f) ==
    /\ pc[f] = "rh_check"
    /\ pc' = [pc EXCEPT ![f] = IF loc[f].kind \in DOMAIN event_map
                               THEN "rh_append" ELSE "rh_create"]
    /\ UNCHANGED <<sourceVars, dbmVars, ghostVars, event_map, rtnl_objects, objs,
                   chan, ifrows, db_lock, loc, reports, apiThreads, obs>>

\* self._event_map[event] = []
NewList(map, kind) ==
    [k \in DOMAIN map \cup {kind} |-> IF k = kind THEN <<>> ELSE map[k]]

\* The assignment is made by the thread that found no list, whatever the
\* map holds by now.
RhCreate(f) ==
    /\ pc[f] = "rh_create"
    /\ event_map' = NewList(event_map, loc[f].kind)
    /\ pc' = [pc EXCEPT ![f] = "rh_append"]
    /\ UNCHANGED <<sourceVars, dbmVars, ghostVars, rtnl_objects, objs,
                   chan, ifrows, db_lock, loc, reports, apiThreads, obs>>

\* self._event_map[event].append(handler); the call returns
RhAppend(f) ==
    /\ pc[f] = "rh_append"
    /\ event_map' = [event_map EXCEPT ![loc[f].kind] =
                         Append(@, UserHandler(f, loc[f].o))]
    /\ obs' = [obs EXCEPT ![f].out =
                 Append(@, [kind |-> loc[f].kind, h |-> UserHandler(f, loc[f].o)]),
                          ![f].result = "registered"]
    /\ pc' = [pc EXCEPT ![f] = "idle"]
    /\ loc' = [loc EXCEPT ![f] = NoLoc]
    /\ UNCHANGED <<sourceVars, dbmVars, ghostVars, rtnl_objects, objs,
                   chan, ifrows, db_lock, reports, apiThreads>>

RegisterCalls ==
    \E f \in FG :
        \/ \E kind \in RegisterKinds : RhCall(f, kind)
        \/ RhCheck(f)
        \/ RhCreate(f)
        \/ RhAppend(f)

\* ------------------------------------------------- foreground: snapshots
\* schema.get('interfaces', {field: index}): the positions of the rows whose
\* field holds the index, in table order.
SchemaGet(rows, field, index) ==
    SelectSeq([i \in 1..Len(rows) |-> i], LAMBDA i : rows[i][field] = index)

\* The rows the two loops of Interface.snapshot() walk: those whose
\* IFLA_MASTER is self['index'], then those whose IFLA_LINK is.
SnapshotDeps(rows, index) ==
    SchemaGet(rows, "IFLA_MASTER", index) \o SchemaGet(rows, "IFLA_LINK", index)

\* super().snapshot(): the capture of one interface, the root (row 0) or
\* the row a dependent object was made for, of the call for row 'of'.
Capture(row, of, flags) == [row |-> row, of |-> of, flags |-> flags]

\* A running snapshot() call: the row it is for and the rows its loops
\* have still to walk.
Frame(row, deps) == [row |-> row, deps |-> deps]

\* obj.snapshot(): with self.schema.db_lock: snp = super().snapshot()
SnapshotBegin(f, o) ==
    /\ pc[f] = "idle"
    /\ MayCall(f, "snapshot")
    /\ objs[o].alive
    /\ CanLock(f)
    /\ db_lock' = Acquire(f)
    /\ pc' = [pc EXCEPT ![f] = "snapshot"]
    /\ loc' = [loc EXCEPT ![f] =
                 [NoLoc EXCEPT !.op = "snapshot", !.o = o,
                     !.todo = <<Frame(0, SnapshotDeps(ifrows, objs[o].index))>>]]
    /\ obs' = [obs EXCEPT ![f] =
                 [NoObs EXCEPT !.out = <<Capture(0, 0,
                     IF RowOf(ifrows, o) = 0 THEN objs[o].flags
                     ELSE ifrows[RowOf(ifrows, o)].flags)>>]]
    /\ UNCHANGED <<sourceVars, dbmVars, ghostVars, event_map, rtnl_objects, objs,
                   chan, ifrows, reports, apiThreads>>

\* One step of the innermost running snapshot(): the next row of its loops
\* gets an object and that object's snapshot() begins, in the lock again;
\* with no row left the call leaves its with-block and returns, and the
\* caller appends (link, link.snapshot()) to its snapshot_deps.  A call
\* nested deeper than the interpreter allows raises RecursionError, which
\* unwinds every running snapshot() and ends the caller's call.
SnapshotStep(f) ==
    /\ pc[f] = "snapshot"
    /\ LET top == loc[f].todo[1]
           rest == Tail(loc[f].todo)
       IN  IF top.deps # <<>> /\ Len(loc[f].todo) >= MaxDepth
           THEN /\ db_lock' = Unwind(Len(loc[f].todo))
                /\ pc' = [pc EXCEPT ![f] = "idle"]
                /\ loc' = [loc EXCEPT ![f] = NoLoc]
                /\ obs' = [obs EXCEPT ![f].result = "RecursionError"]
           ELSE IF top.deps # <<>>
           THEN LET r == Head(top.deps)
                IN  /\ db_lock' = Acquire(f)
                    /\ loc' = [loc EXCEPT ![f].todo =
                                 <<Frame(r, SnapshotDeps(ifrows, ifrows[r].index)),
                                   Frame(top.row, Tail(top.deps))>> \o rest]
                    /\ obs' = [obs EXCEPT ![f].out =
                                 Append(@, Capture(r, top.row, ifrows[r].flags)),
                                          ![f].locked = @ /\ db_lock.owner = f]
                    /\ UNCHANGED pc
           ELSE /\ db_lock' = Release
                /\ IF rest = <<>>
                   THEN /\ pc' = [pc EXCEPT ![f] = "idle"]
                        /\ loc' = [loc EXCEPT ![f] = NoLoc]
                        /\ obs' = [obs EXCEPT ![f].result = "snapshot"]
                   ELSE /\ loc' = [loc EXCEPT ![f].todo = rest]
                        /\ UNCHANGED <<pc, obs>>
    /\ UNCHANGED <<sourceVars, dbmVars, ghostVars, event_map, rtnl_objects, objs,
                   chan, ifrows, reports, apiThreads>>

\* The rows snapshots are taken over: a bridge, its port, the port of the
\* bridge of another origin that has the same index, and a vlan on the port.
SnapRows ==
    { IfRow("localhost", 1, "br0", 1, 0, 0),
      IfRow("localhost", 2, "eth0", 1, 1, 0),
      IfRow("h1", 2, "eth0", 1, 1, 0),
      IfRow("localhost", 3, "v100", 1, 0, 2) }

SnapCalls ==
    \E f \in FG :
        \/ \E o \in 1..Len(objs) : SnapshotBegin(f, o)
        \/ SnapshotStep(f)

SourceCalls ==
    \E f \in FG :
        \/ \E t \in Origins, ev \in BOOLEAN : ConnectSource(f, t, ev)
        \/ \E t \in Origins, flush \in BOOLEAN : DisconnectSource(f, t, flush)
        \/ DsJoin(f)
        \/ DsFlush(f)
        \/ CsNew(f)

CloseCalls == \E f \in FG : Close(f) \/ ClSrc(f) \/ ClSrcJoin(f) \/ ClCommit(f)

\* Well-formed link messages only.
PlainShapes == { <<<<"ifinfmsg", TRUE, 0>>, <<"ifinfmsg", TRUE, 1>>>> }

\* The dispatch loop against live objects: readers relay every shape of
\* batch while callers mint and drop LiveObjects.
NextDispatch == Dbm \/ Relays(RelayShapes) \/ Views \/ Drops
SpecDispatch ==
    InitWith(Len(InitOrigins)) /\ InitViews(<<>>, {"f1"}) /\ [][NextDispatch]_vars

\* Attach and detach of sources against the readers and the loop.
NextSources == Dbm \/ Relays(PlainShapes) \/ Exits \/ SourceCalls
SpecSources == InitOne /\ [][NextSources]_vars

\* close() from two threads against the readers and the loop: every shape
\* of batch, error events included; close() is the one source of the
\* shutdown signal.
NextErrors == Dbm \/ Relays(RelayShapes) \/ Exits \/ CloseCalls
SpecErrors == InitOne /\ [][NextErrors]_vars

\* The readers against their channels: batches arrive, the disconnect batch
\* among them, while sources are detached.
DetachCalls ==
    \E f \in FG :
        \/ \E t \in Origins, flush \in BOOLEAN : DisconnectSource(f, t, flush)
        \/ DsJoin(f)
        \/ DsFlush(f)

NextReaders == ChanRecvs \/ ReaderLoops \/ DetachCalls
SpecReaders == InitOne /\ [][NextReaders]_vars

\* Two callers get objects by complete and incomplete keys.
NextKeys == KeyCalls
SpecKeys ==
    /\ InitWith(1)
    /\ \E rows \in Tables(IfRows) : InitViews(rows, FG)
    /\ [][NextKeys]_vars

\* One caller gets objects and loads them from their rows and from link
\* messages.
NextLoads == KeyCalls \/ LoadCalls
SpecLoads ==
    /\ InitWith(1)
    /\ \E rows \in Tables(IfRows) : InitViews(rows, {"f1"})
    /\ [][NextLoads]_vars

\* --------------------------------------------------- foreground: reports
ReportKinds == {"dump", "summary", "csv"}

\* The first record a bulk query yields: the tuple of the column names
\* (_dump), iclass.summary_header (_summary).
Header(kind) ==
    IF kind = "summary" THEN IfRow("target", 0, "ifname", 0, 0, 0)
    ELSE IfRow("target", 0, "IFLA_IFNAME", 0, 0, 0)

\* Interface.summary: the columns the SELECT names.
Summary(row) == IfRow(row.target, row.index, row.IFLA_IFNAME, row.flags, 0, 0)

\* _csv: a record of the dump turned into one line.
Csv(record) == [line |-> record]

\* What the generator of a kind yields for a record of its query.
Yield(kind, record) ==
    CASE kind = "dump" -> record
      [] kind = "summary" -> Summary(record)
      [] kind = "csv" -> Csv(record)

\* The header as the generator yields it: _csv turns it into a line too.
FirstRecord(kind) == IF kind = "csv" THEN Csv(Header(kind)) ELSE Header(kind)

\* Report(generator): the generator has not run yet.  pos counts the
\* records it has yielded, buf holds the rows fetch() has returned.
NewReport(f, kind) ==
    [owner |-> f, kind |-> kind, pos |-> 0, buf |-> <<>>, done |-> FALSE]

\* Mutant: _dump runs its query without the Store lock.
DumpLockNever(kind) == FALSE

\* _dump iterates its cursor inside 'with self.ndb.schema.db_lock'; _csv
\* iterates a _dump; _summary calls schema.fetch, which locks by itself.
DumpLock(kind) == kind \in {"dump", "csv"}

\* The generator is suspended inside its query: the cursor is open.
CursorOpen(g) == g.pos >= 2 /\ ~g.done /\ g.kind \in {"dump", "csv"}

\* View.dump() / View.summary() / View.csv(): return Report(generator)
ViewReport(f, kind) ==
    /\ pc[f] = "idle"
    /\ MayCall(f, kind)
    /\ Len(reports) < MaxReports
    /\ reports' = Append(reports, NewReport(f, kind))
    /\ UNCHANGED <<sourceVars, dbmVars, ghostVars, event_map, rtnl_objects, objs,
                   pc, chan, ifrows, db_lock, loc, apiThreads, obs>>

\* iter(report) to its end, len(report) or repr(report): the loop over
\* self.generator begins
ReportCall(f, r, op) ==
    /\ pc[f] = "idle"
    /\ MayCall(f, op)
    /\ reports[r].owner = f
    /\ pc' = [pc EXCEPT ![f] = "report"]
    /\ loc' = [loc EXCEPT ![f] = [NoLoc EXCEPT !.op = op, !.rep = r]]
    /\ obs' = [obs EXCEPT ![f] = NoObs]
    /\ UNCHANGED <<sourceVars, dbmVars, ghostVars, event_map, rtnl_objects, objs,
                   chan, ifrows, db_lock, reports, apiThreads>>

\* The loop of the caller has got a record: __repr__ breaks off once its
\* counter is above MAX_REPORT_LINES, the other loops go on.
Consume(f, record) ==
    /\ obs' = [obs EXCEPT ![f].out = Append(@, record),
                          ![f].result =
                              IF loc[f].op = "repr" /\ Len(obs[f].out) + 1 > MAX_REPORT_LINES
                              THEN "repr" ELSE @]
    /\ IF loc[f].op = "repr" /\ Len(obs[f].out) + 1 > MAX_REPORT_LINES
       THEN /\ pc' = [pc EXCEPT ![f] = "idle"]
            /\ loc' = [loc EXCEPT ![f] = NoLoc]
       ELSE UNCHANGED <<pc, loc>>

\* The generator is exhausted: the loop of the caller ends and the call
\* returns.
Exhausted(f) ==
    /\ obs' = [obs EXCEPT ![f].result = loc[f].op]
    /\ pc' = [pc EXCEPT ![f] = "idle"]
    /\ loc' = [loc EXCEPT ![f] = NoLoc]

\* next() on the generator of the report, from the loop of the caller
ReportNext(f) ==
    /\ pc[f] = "report"
    /\ LET r == loc[f].rep
           g == reports[r]
       IN  CASE g.done ->
                 /\ Exhausted(f)
                 /\ UNCHANGED <<reports, db_lock>>
             [] ~g.done /\ g.pos = 0 ->
                 /\ reports' = [reports EXCEPT ![r].pos = 1]
                 /\ Consume(f, FirstRecord(g.kind))
                 /\ UNCHANGED db_lock
             [] ~g.done /\ g.pos >= 1 /\ g.kind = "summary" ->
                 /\ g.pos = 1 => CanLock(f)
                 /\ LET buf == IF g.pos = 1 THEN ifrows ELSE g.buf
                    IN  IF g.pos <= Len(buf)
                        THEN /\ reports' = [reports EXCEPT ![r].pos = @ + 1,
                                                           ![r].buf = buf]
                             /\ Consume(f, Yield(g.kind, buf[g.pos]))
                        ELSE /\ reports' = [reports EXCEPT ![r].done = TRUE,
                                                           ![r].buf = <<>>]
                             /\ Exhausted(f)
                 /\ UNCHANGED db_lock
             [] ~g.done /\ g.pos >= 1 /\ g.kind # "summary" ->
                 /\ (g.pos = 1 /\ DumpLock(g.kind)) => CanLock(f)
                 /\ IF g.pos <= Len(ifrows)
                    THEN /\ reports' = [reports EXCEPT ![r].pos = @ + 1]
                         /\ Consume(f, Yield(g.kind, ifrows[g.pos]))
                         /\ db_lock' = IF g.pos = 1 /\ DumpLock(g.kind)
                                       THEN Acquire(f) ELSE db_lock
                    ELSE /\ reports' = [reports EXCEPT ![r].done = TRUE]
                         /\ Exhausted(f)
                         /\ db_lock' = IF g.pos > 1 /\ DumpLock(g.kind)
                                       THEN Release ELSE db_lock
    /\ UNCHANGED <<sourceVars, dbmVars, ghostVars, event_map, rtnl_objects, objs,
                   chan, ifrows, apiThreads>>

\* The caller drops its last reference to the Report: the generator is
\* closed, and a generator suspended inside its with-block leaves it.
ReportDrop(f, r) ==
    /\ pc[f] = "idle"
    /\ reports[r].owner = f
    /\ reports' = [reports EXCEPT ![r].owner = NoThread, ![r].done = TRUE,
                                  ![r].buf = <<>>]
    /\ db_lock' = IF CursorOpen(reports[r]) /\ DumpLock(reports[r].kind)
                  THEN Release ELSE db_lock
    /\ UNCHANGED <<sourceVars, dbmVars, ghostVars, event_map, rtnl_objects, objs,
                   pc, chan, ifrows, loc, apiThreads, obs>>

ReportCalls ==
    \E f \in FG :
        \/ \E kind \in ReportKinds : ViewReport(f, kind)
        \/ \E r \in 1..Len(reports), op \in {"iter", "len", "repr"} :
               ReportCall(f, r, op)
        \/ ReportNext(f)

\* One caller takes reports of the table and uses them, again and again.
NextReports == ReportCalls
SpecReports ==
    /\ InitWith(1)
    /\ \E rows \in Tables(IfRows) : InitViews(rows, {"f1"})
    /\ [][NextReports]_vars

\* close() under a fair scheduler: the dispatch thread runs while it has a
\* step to take, a handler invocation ends, a transport that was closed
\* delivers its disconnect batch, and a thread inside close() goes on.
CloseSteps(f) == ClSrc(f) \/ ClSrcJoin(f) \/ ClCommit(f)

SpecClose ==
    /\ InitOne
    /\ [][NextErrors]_vars
    /\ WF_vars(Dbm)
    /\ WF_vars(Exits)
    /\ \A f \in FG : WF_vars(CloseSteps(f))

\* Two callers attach and detach sources at the same time.
NextAttach == Exits \/ SourceCalls
SpecAttach == InitTwo /\ [][NextAttach]_vars

\* The Store under contention: the loop writes the table while a caller
\* reads it through reports, key lookups and snapshots, and flushes it.
LinkDown == { <<<<"ifinfmsg", TRUE, 0>>>> }

StoreRows ==
    { IfRow("localhost", 1, "br0", 1, 0, 0),
      IfRow("localhost", 2, "eth0", 1, 1, 0) }

StoreCalls ==
    \E f \in FG :
        \/ \E kind \in {"dump", "summary"} : ViewReport(f, kind)
        \/ \E r \in 1..Len(reports) : ReportCall(f, r, "iter")
        \/ ReportNext(f)
        \/ GetKey(f, KeyOfName("br0"))
        \/ CkFetch(f)
        \/ GetNew(f)
        \/ \E o \in 1..Len(objs) : SnapshotBegin(f, o)
        \/ SnapshotStep(f)
        \/ DisconnectSource(f, "localhost", TRUE)
        \/ DsJoin(f)
        \/ DsFlush(f)

NextStore == Dbm \/ Relays(LinkDown) \/ Exits \/ StoreCalls
SpecStore ==
    /\ InitWith(1)
    /\ \E rows \in Tables(StoreRows) : InitViews(rows, {"f1"})
    /\ [][NextStore]_vars

\* Snapshots of live objects against the loop that writes the table.
NextSnap == Dbm \/ Relays(PlainShapes) \/ Views \/ SnapCalls
SpecSnap ==
    /\ InitWith(1)
    /\ \E rows \in Tables(SnapRows) : InitViews(rows, {"f1"})
    /\ [][NextSnap]_vars

\* A caller takes reports, previews them, keeps or drops them, while the
\* loop writes the table.
ReportDrops == \E f \in FG, r \in 1..Len(reports) : ReportDrop(f, r)

NextAbandon == Dbm \/ Relays(LinkDown) \/ ReportCalls \/ ReportDrops
SpecAbandon ==
    /\ InitWith(1)
    /\ \E rows \in Tables(StoreRows) : InitViews(rows, {"f1"})
    /\ [][NextAbandon]_vars

\* Two callers register handlers at the same time.
NextRegister == RegisterCalls
SpecRegister == InitTwo /\ [][NextRegister]_vars

\* Snapshots over tables whose rows refer to themselves and to each other:
\* a veth pair in one namespace (each the IFLA_LINK of the other), a veth
\* whose peer in another namespace has its own index, and a plain port.
CycleRows ==
    { IfRow("localhost", 1, "veth0", 1, 0, 2),
      IfRow("localhost", 2, "veth1", 1, 0, 1),
      IfRow("h1", 1, "eth0", 1, 0, 1),
      IfRow("h1", 2, "eth1", 1, 1, 0) }

NextCycle == Views \/ SnapCalls
SpecCycle ==
    /\ InitWith(1)
    /\ \E rows \in Tables(CycleRows) : InitViews(rows, {"f1"})
    /\ [][NextCycle]_vars

\* ================================================================ claims
\* The numbers n of the Source events (n > 0) in a sequence of events.
RECURSIVE SourceNs(_)
SourceNs(events) ==
    IF events = <<>> THEN <<>>
    ELSE (IF Head(events).n > 0 THEN <<Head(events).n>> ELSE <<>>)
         \o SourceNs(Tail(events))

\* The numbers of the Source events of origin o in a sequence of batches.
RECURSIVE QueuedNs(_, _)
QueuedNs(q, o) ==
    IF q = <<>> THEN <<>>
    ELSE (IF Head(q).target = o THEN SourceNs(Head(q).events) ELSE <<>>)
         \o QueuedNs(Tail(q), o)

\* The events of the current batch the loop has not yet handed to handlers.
CurRest ==
    IF dbmPc \in {"invoke", "gc"}
    THEN [target |-> cur.target,
          events |-> SubSeq(cur.events, ei + 1, Len(cur.events))]
    ELSE [target |-> "none", events |-> <<>>]

\* Origin o's events still to be dispatched, in the order they will be.
Pending(o) == QueuedNs(<<CurRest>> \o evq, o)

\* Nothing of origin o is skipped, duplicated or reordered: what is still
\* to come is exactly the events put after the last one dispatched.
InOrder(o) ==
    Pending(o) = [i \in 1..(nput[o] - lastDisp[o]) |-> lastDisp[o] + i]

\* C1: while the loop runs, for every origin the events still to be
\* dispatched are, in queue order, exactly those its Source put after the
\* last one handed to the handlers, whatever the other origins put between.
C1_PerOriginOrder ==
    dbmPc # "done" => \A o \in Origins : lastDisp[o] <= nput[o] /\ InOrder(o)

\* C1 witness: events of both origins were dispatched past the initial
\* dumps, a two-event relayed batch among them, and more are queued.
C1_Witness ==
    /\ lastDisp["localhost"] >= 6
    /\ lastDisp["h1"] >= 5
    /\ evq # <<>>

\* C2: once disconnect_source(target, flush=True) has returned, and until
\* the target is attached again, the Store holds no row of the target.
C2_DetachedStaysFlushed ==
    \A t \in Origins : detached[t] => \A r \in store : r.target # t

\* C3: no call of close() commits or closes a Store that is closed already.
C3_CloseIdempotent == ~commitOnClosed

\* C4: the step of close() that commits and closes the Store is taken only
\* when the shutdown signal was put and has ended the loop and every Source
\* close() iterated is closed and its thread joined; and whenever the Store
\* is closed the dispatch loop has terminated, so no handler runs on it.
C4_CloseOrder ==
    [][ /\ (storeOpen /\ ~storeOpen') =>
              /\ closes >= 1
              /\ dbmPc = "done"
              /\ lastOut.out = "shutdown"
              /\ \A f \in FG : (pc[f] = "cl_join" /\ pc'[f] = "idle") =>
                    \A s \in arg[f].snap : sources[s].closed /\ ~sources[s].alive
        /\ ~storeOpen' => dbmPc' = "done" ]_vars

\* C4 witness: the Store is closed, both readers were closed, and batches
\* queued behind the shutdown signal are left undispatched.
C4_Witness ==
    /\ ~storeOpen
    /\ Len(sources) = 2
    /\ \A s \in 1..Len(sources) : sources[s].closed /\ ~sources[s].alive
    /\ Len(evq) >= 1

\* An invocation that failed and was logged, or the default handler
\* ignoring an event of a kind nobody handles.
Survivable ==
    \/ lastOut.out = "fail"
    \/ lastOut.h = "default" /\ lastOut.out = "ok"

\* C5: after a handler failed with anything but the invalidate and shutdown
\* signals, or an unhandled kind went to the default handler, the loop has
\* not stopped: it stands at the next handler of the event, or past the
\* last one, and no event of any origin, in this batch or later, is lost.
C5_LoopSurvivesFailures ==
    /\ dbmPc # "done"
    /\ Survivable =>
          /\ dbmPc \in {"invoke", "gc", "get"}
          /\ hi = lastOut.hi + 1
          /\ (dbmPc = "invoke") = (hi <= Len(hs))
    /\ \A o \in Origins : InOrder(o)

\* C5 witness: the Store's handler failed on a malformed message and the
\* handler of a live object is the next to be invoked for the same event.
C5_Witness ==
    /\ lastOut.out = "fail"
    /\ lastOut.h = "schema"
    /\ dbmPc = "invoke"
    /\ hs[hi].h = "obj"
    /\ objs[hs[hi].o].alive

\* The last invocation handed an Exception instance to the default handler.
ErrorDefaulted ==
    /\ lastOut.h = "default"
    /\ cur.events[ei].kind = "Exception"

AtDeadHandler ==
    /\ dbmPc = "invoke"
    /\ hs[hi].h = "obj"
    /\ ~objs[hs[hi].o].alive

\* s without the elements equal to x.
Without(s, x) == LET Keep(y) == y # x IN SelectSeq(s, Keep)

\* C7: the invocation of a handler whose referent is gone removes that one
\* handler from the list of the event's kind and nothing else from the
\* registry, touches no object and no row, and the loop goes on with the
\* next handler of the same snapshot.
C7_InvalidateRemovesOnlyThat ==
    [][ (AtDeadHandler /\ hi' = hi + 1) =>
           /\ event_map' = [event_map EXCEPT
                              ![cur.events[ei].kind] = Without(@, hs[hi])]
           /\ Len(event_map'[cur.events[ei].kind])
                 = Len(event_map[cur.events[ei].kind]) - 1
           /\ objs' = objs
           /\ store' = store
           /\ rtnl_objects' = rtnl_objects
           /\ hs' = hs
           /\ dbmPc' = IF hi + 1 <= Len(hs) THEN "invoke" ELSE "gc" ]_vars

\* C7 witness: a dead handler was just removed, the handler of a live
\* object registered after it is the next to be invoked, and the Store's
\* handler is still first in the list.
C7_Witness ==
    /\ lastOut.out = "invalidate"
    /\ dbmPc = "invoke"
    /\ hs[hi].h = "obj"
    /\ objs[hs[hi].o].alive
    /\ event_map["ifinfmsg"][1] = SchemaHandler

\* Every position of every list of the registry.
RegSlots ==
    UNION { { <<k, i>> : i \in 1..Len(event_map[k]) } : k \in DOMAIN event_map }

\* The registrations of object o in the registry.
Registrations(o) ==
    { ki \in RegSlots : event_map[ki[1]][ki[2]] = ObjHandler(o) }

\* C8: an object that is dead and was swept (its weak reference is out of
\* _rtnl_objects) has no handler left in the registry.
C8_SweepPrunesRegistry ==
    \A o \in 1..Len(objs) : o \notin rtnl_objects => Registrations(o) = {}

\* C9: every object that is still reachable has its weak reference and its
\* one registration, under ifinfmsg, in the registry.
C9_LiveStaysRegistered ==
    \A o \in 1..Len(objs) :
        objs[o].alive =>
            /\ o \in rtnl_objects
            /\ Cardinality(Registrations(o)) = 1
            /\ \E i \in 1..Len(event_map["ifinfmsg"]) :
                  event_map["ifinfmsg"][i] = ObjHandler(o)

\* C9 witness: the callback of a live object has just failed, a sweep has
\* removed the weak reference of another object, and the live one is
\* still registered.
C9_Witness ==
    /\ lastOut.h = "obj"
    /\ lastOut.out = "fail"
    /\ objs[lastOut.o].alive
    /\ \E o \in 1..Len(objs) : o \notin rtnl_objects
    /\ Registrations(lastOut.o) # {}

\* Rank of a batch of one Source in the order start() and the reader put.
Rank(role) ==
    CASE role = "links" -> 1
      [] role = "addr" -> 2
      [] role = "neigh" -> 3
      [] role = "routes" -> 4
      [] role = "ready" -> 5
      [] OTHER -> 6

\* The queued batches of Source e, with the one in hand first.
BatchesOf(e) ==
    LET Mine(b) == b.ep = e IN SelectSeq(<<cur>> \o evq, Mine)

\* The ready batches of Source e not yet handed to the ready handler.
ReadyWaiting(e) ==
    LET Waits(b) == b.ep = e /\ b.role = "ready" IN
    Len(SelectSeq(evq, Waits))
    + (IF cur.ep = e /\ cur.role = "ready" /\ dbmPc = "invoke" /\ hi = 1
       THEN 1 ELSE 0)

\* C10: per attach, the batches stand in the queue in the order links,
\* addresses, neighbours, routes, ready signal, relayed; there is exactly
\* one ready batch when a signal was supplied and none otherwise; the
\* Event is set at most once, and only when the four dump batches of that
\* attach were dispatched in that order; a relayed batch never overtakes.
C10_ReadyAfterDump ==
    \A e \in 1..Epoch :
        /\ evSet[e] <= 1
        /\ evSet[e] = 1 => dumped[e] = DumpRoles
        /\ Len(dumped[e]) <= 4 /\ dumped[e] = SubSeq(DumpRoles, 1, Len(dumped[e]))
        /\ ReadyWaiting(e) + evSet[e] = (IF sources[e].started THEN 1 ELSE 0)
        /\ LET B == BatchesOf(e)
           IN  \A i \in 1..(Len(B) - 1) :
                  /\ Rank(B[i].role) <= Rank(B[i + 1].role)
                  /\ Rank(B[i].role) = Rank(B[i + 1].role) => B[i].role = "relay"
        /\ (cur.ep = e /\ cur.role = "relay") =>
              /\ dumped[e] = DumpRoles
              /\ sources[e].started => evSet[e] = 1

\* C10 witness: the ready Event of an attach was set, and a batch relayed
\* by that attach's reader is dispatched after it.
C10_Witness ==
    \E e \in 1..Epoch :
        /\ evSet[e] = 1
        /\ cur.ep = e
        /\ cur.role = "relay"

\* The batches Source s's reader has put into the queue.
RelayedOf(q, s) ==
    LET Mine(b) == b.ep = s /\ b.role = "relay" IN SelectSeq(q, Mine)

\* C11: the turn of the reader that takes a disconnect batch (error code
\* 104 in the header of its first message) puts nothing and ends the
\* thread; a reader whose thread has ended puts nothing; and the join of
\* Source.close() is passed only when the thread has ended.
C11_ReaderStopsAtDisconnect ==
    [][ /\ \A s \in 1..Len(sources) :
              /\ ( /\ ChanOf(s) # <<>>
                   /\ Head(ChanOf(s))[1][4] = ECONNRESET
                   /\ chan' # chan
                   /\ s \in DOMAIN chan'
                   /\ chan'[s] = Tail(ChanOf(s)) )
                    => evq' = evq /\ ~sources'[s].alive
              /\ ~sources[s].alive => RelayedOf(evq', s) = RelayedOf(evq, s)
        /\ \A f \in FG :
              (pc[f] = "ds_join" /\ pc'[f] # "ds_join")
                  => /\ ~sources[arg[f].src].alive
                     /\ sources[arg[f].src].closed ]_vars

\* C11 witness: a reader relayed a batch, then took the disconnect batch
\* its origin sent and ended, and a batch that arrived after it is left in
\* the channel; the source was then closed and its close() has returned.
C11_Witness ==
    \E s \in 1..Len(sources) :
        /\ ~sources[s].alive
        /\ sources[s].closed
        /\ ChanOf(s) # <<>>
        /\ RelayedOf(evq, s) # <<>>
        /\ sources[s].target \notin DOMAIN nl
        /\ \A f \in FG : pc[f] = "idle"

\* The loop has just begun an event of the kind Interface objects handle.
BeginsLinkEvent ==
    /\ dbmPc' = "invoke"
    /\ hi' = 1
    /\ cur'.events[ei'].kind = "ifinfmsg"
    /\ (cur' # cur \/ ei' # ei)

\* C12: a returning View.get leaves every older object as it was, mints an
\* object that did not exist, adds its weak reference and appends its one
\* handler at the end of the list of ifinfmsg, and changes nothing else in
\* the registry; the loop begins every event of that kind with a snapshot
\* that holds the handler of every reachable object, older objects first,
\* and leaves the snapshot only past its last handler.
C12_GetNeverCached ==
    [][ /\ Len(objs') = Len(objs) + 1 =>
              /\ Len(objs) + 1 \notin rtnl_objects
              /\ Registrations(Len(objs) + 1) = {}
              /\ rtnl_objects' = rtnl_objects \cup {Len(objs) + 1}
              /\ event_map' = [event_map EXCEPT !["ifinfmsg"] =
                                   Append(@, ObjHandler(Len(objs) + 1))]
              /\ objs'[Len(objs) + 1].alive
              /\ \A o \in 1..Len(objs) : objs'[o] = objs[o]
        /\ BeginsLinkEvent =>
              /\ hs' = event_map["ifinfmsg"]
              /\ \A o \in 1..Len(objs) :
                    objs[o].alive => \E i \in 1..Len(hs') : hs'[i] = ObjHandler(o)
              /\ \A i, j \in 1..Len(hs') :
                    (i < j /\ hs'[i].h = "obj" /\ hs'[j].h = "obj")
                        => hs'[i].o < hs'[j].o
        /\ (dbmPc = "invoke" /\ dbmPc' # "invoke") => hi' = Len(hs) + 1
        /\ (dbmPc = "invoke" /\ hi' # hi) => hi' = hi + 1 /\ hs' = hs ]_vars

\* C12 witness: two reachable objects got for the same key; the first was
\* invoked for an event and took it, the second is the next to be invoked.
C12_Witness ==
    /\ Len(objs) = 2
    /\ objs[1].alive /\ objs[2].alive
    /\ objs[1].target = objs[2].target
    /\ dbmPc = "invoke"
    /\ hs[hi] = ObjHandler(2)
    /\ lastOut.h = "obj" /\ lastOut.o = 1 /\ lastOut.out = "ok"
    /\ objs[1].state = "up"

C14_AmbiguousKeyFails ==
    \A f \in FG :
        (pc[f] = "get_new" /\ loc[f].fetch # {}) =>
            Cardinality(Matches(ifrows, loc[f].key)) = 1

\* 'state' as bit 0 of 'flags' gives it.
Derived(flags) == IF flags % 2 = 1 THEN "up" ELSE "down"

\* C15: every step leaves each reachable object it changed with the state
\* bit 0 of its flags gives, and each object it did not change either with
\* that state or as Interface.__init__ made it (flags 0, state 'unknown').
C15_StateFollowsFlags ==
    [][ \A o \in 1..Len(objs') :
          objs'[o].alive =>
              IF o <= Len(objs) /\ objs'[o] # objs[o]
              THEN objs'[o].state = Derived(objs'[o].flags)
              ELSE \/ objs'[o].state = Derived(objs'[o].flags)
                   \/ objs'[o].state = "unknown" /\ objs'[o].flags = 0 ]_vars

\* C15 witness: an object loaded with bit 0 clear and another bit set is
\* 'down' while an object loaded with bit 0 set is 'up'.
C15_Witness ==
    /\ Len(objs) = 2
    /\ objs[1].flags = 2 /\ objs[1].state = "down"
    /\ objs[2].flags = 3 /\ objs[2].state = "up"

\* The structural dependents of an interface: the rows of its origin whose
\* IFLA_MASTER or IFLA_LINK is its index.
Dependents(rows, target, index) ==
    { i \in 1..Len(rows) :
        /\ rows[i].target = target
        /\ rows[i].IFLA_MASTER = index \/ rows[i].IFLA_LINK = index }

\* The entries of the root's snapshot_deps in a returned snapshot.
RootDeps(out) == { i \in 1..Len(out) : out[i].of = 0 /\ out[i].row # 0 }

\* C16: a snapshot of an interface that has its row in the Store holds, when
\* it returns, one entry per structural dependent of the interface in
\* snapshot_deps, N entries for N dependents, and every capture of it was
\* taken with the Store lock held.
C16_SnapshotDepsExact ==
    [][\A f \in FG :
          (pc[f] = "snapshot" /\ pc'[f] = "idle" /\ RowOf(ifrows, loc[f].o) # 0) =>
              /\ obs'[f].locked
              /\ Cardinality(RootDeps(obs'[f].out)) =
                 Cardinality(Dependents(ifrows, objs[loc[f].o].target,
                                        objs[loc[f].o].index))]_vars

\* The part of C16 the code keeps: from the root capture to the return of
\* snapshot() the caller holds the Store lock and the table is not written.
C16_SnapshotUnderLock ==
    [][\A f \in FG :
          pc[f] = "snapshot" => db_lock.owner = f /\ ifrows' = ifrows]_vars

\* The records of a bulk query over a table, the header row first.
Records(kind, rows) ==
    <<FirstRecord(kind)>> \o [i \in 1..Len(rows) |-> Yield(kind, rows[i])]

\* C18: every iteration of a Report to its end, the first or a later one,
\* after len() and repr() or not, yields the records of the query, header
\* row first, and every len() counts that many records.
C18_ReportReusable ==
    [][\A f \in FG :
          (pc[f] = "report" /\ pc'[f] = "idle" /\ loc[f].op \in {"iter", "len"}) =>
              obs'[f].out = Records(reports[loc[f].rep].kind, ifrows)]_vars

\* What holds of a Report: the first use of it yields the records of the
\* query, every later one yields what the first has left.
C18_FirstUseOnly ==
    [][\A f \in FG :
          (pc[f] = "report" /\ pc'[f] = "idle" /\ loc[f].op \in {"iter", "len"}) =>
              \E k \in 0..(Len(ifrows) + 1) :
                  obs'[f].out = SubSeq(Records(reports[loc[f].rep].kind, ifrows),
                                       k + 1, Len(ifrows) + 1)]_vars

\* The thread is inside a Store access that takes more than one step: the
\* lookup of complete_key, a snapshot, the open cursor of a dump.
InStore(f) ==
    \/ pc[f] \in {"ck_fetch", "snapshot"}
    \/ \E r \in 1..Len(reports) : reports[r].owner = f /\ CursorOpen(reports[r])

\* The step writes the Store: its rows, the interfaces table, or closes it.
StoreWritten == store' # store \/ ifrows' # ifrows \/ storeOpen' # storeOpen

\* The step is one of thread f.
StepOf(f) == pc'[f] # pc[f] \/ loc'[f] # loc[f]

AliveReaders(t) ==
    { s \in 1..Len(sources) : sources[s].target = t /\ sources[s].alive }

\* C19: at most one reader thread per origin is alive, and NDB.nl maps the
\* origin to that reader.
C19_OneReaderPerOrigin ==
    \A t \in Origins :
        /\ Cardinality(AliveReaders(t)) <= 1
        /\ \A s \in AliveReaders(t) : t \in DOMAIN nl /\ nl[t] = s

\* A thread is inside close(), past the put of the shutdown signal.
InClose(f) == pc[f] \in {"cl_src", "cl_srcjoin", "cl_join"}

\* C20: a close() that has begun returns: the dispatch loop has exited by
\* then, every reader thread of nl is joined, and _global_lock is free for
\* the next caller.
C20_CloseReturns ==
    \A f \in FG :
        InClose(f) ~>
            /\ pc[f] = "idle"
            /\ dbmPc = "done"
            /\ \A s \in NlItems : ~sources[s].alive
            /\ global_lock = NoThread

\* A close() has returned with batches still in the queue behind the
\* shutdown signal the loop ended on.
C20_Witness ==
    /\ closes >= 1
    /\ \A f \in FG : pc[f] = "idle"
    /\ dbmPc = "done"
    /\ ~storeOpen
    /\ evq # <<>>

\* C21: a caller that stops iterating a report, at its end or before it as
\* repr() does, does not keep the Store lock: when its call returns the
\* lock is not left with it.
C21_AbandonedDumpFreesLock ==
    [][\A f \in FG :
          (pc[f] = "report" /\ pc'[f] = "idle") => db_lock'.owner # f]_vars

\* What the lock left behind does: the loop's Store handler is due and
\* cannot run, while the caller that holds the lock iterates nothing.
HandlerBehindAbandonedDump ==
    /\ dbmPc = "invoke"
    /\ hs[hi].h = "schema"
    /\ \E f \in FG : db_lock.owner = f /\ pc[f] = "idle"

\* The handlers of a kind's list.
Registered(kind) ==
    IF kind \in DOMAIN event_map
    THEN { event_map[kind][i] : i \in 1..Len(event_map[kind]) }
    ELSE {}

\* C22: no registration is lost: the handler of every register_handler
\* call that has returned is in the list of its kind, whatever the other
\* thread did in between.
C22_NoRegistrationLost ==
    \A f \in FG :
        \A i \in 1..Len(obs[f].out) :
            obs[f].out[i].h \in Registered(obs[f].out[i].kind)

\* The rows the running snapshot() calls of a thread are for, the innermost
\* first; the root call is for no row.
OnStack(f) ==
    SelectSeq([i \in 1..Len(loc[f].todo) |-> loc[f].todo[i].row],
              LAMBDA r : r # 0)

\* C23: snapshot() terminates with a finite tree: no row is captured inside
\* its own capture (each row is at most once among the running calls), and
\* no snapshot ends in RecursionError.
C23_SnapshotTerminates ==
    \A f \in FG :
        /\ obs[f].result # "RecursionError"
        /\ \A i, j \in 1..Len(OnStack(f)) :
              i # j => OnStack(f)[i] # OnStack(f)[j]

\* A snapshot has ended in RecursionError and has left the Store lock.
SnapshotOverflows ==
    \E f \in FG :
        obs[f].result = "RecursionError" /\ pc[f] = "idle" /\ db_lock = NoLock

====
